---- MODULE Spec2Model ----
(***************************************************************************)
(* CompactMl307Board (main/boards/bread-compact-ml307): the board's        *)
(* bring-up sequence, its display fallback, its four buttons and their     *)
(* handlers, and its capability accessors.                                 *)
(***************************************************************************)
EXTENDS Integers, Sequences, FiniteSets

(* ------------------------------------------------------------------ *)
(* Bounds of the model                                                 *)
(* ------------------------------------------------------------------ *)

\* samples a new line level must last before the button accepts it
DebounceTicks == 2

\* asserted samples, counted from the debounced press, that make a long press
LongPressTicks == 2

\* level changes of the button lines (all buttons together) in one run
MaxEdges == 2

\* events delivered straight to the volume handlers in one run of SpecHandlers
MaxRuns == 2

(* ------------------------------------------------------------------ *)
(* Program constants                                                   *)
(* ------------------------------------------------------------------ *)

\* the step of a volume click
VolumeStep == 10

\* the upper clamp and the long-press value of volume up
MaxVolume == 100

\* the lower clamp and the long-press value of volume down
MinVolume == 0

\* the button members, in declaration order
ButtonMembers == <<"boot", "touch", "volume_up", "volume_down">>

Buttons == {ButtonMembers[i] : i \in 1..Len(ButtonMembers)}

Events == {"PressDown", "PressUp", "Click", "LongPress"}

\* the output volumes the codec may hold when the board is constructed
InitVolumes == {95}

VARIABLES
    pc,            \* position of the constructor (bring-up)
    display_,      \* Display* display_: "null", "NoDisplay" or "OledDisplay"
    panel_on,      \* the panel has been powered on
    handlers,      \* the callback registered per <<button, event>>
    things,        \* the things added to the ThingManager, in order
    level,         \* per button: the line level of the last sample (TRUE: asserted)
    cnt,           \* per button: consecutive samples that differ from the debounced level
    bstate,        \* per button: "Idle", "Pressed" or "LongPressFired"
    held,          \* per button: asserted samples since the debounced press
    hpc,           \* per button: "sample", or "write" inside a volume click handler
    hloc,          \* per button: the locals of its running volume click handler
    output_volume, \* the codec's output volume
    led_objs,      \* SingleLed objects constructed so far
    codec_objs,    \* codec objects constructed so far
    shown,         \* the text on the panel
    fault,         \* a caller has run into an error (a null Display*)
    \* history, read by the properties only
    stepLog,       \* the bring-up steps run so far, each with its outcome
    regLog,        \* the handler registrations made, in order
    edges,         \* level changes sampled so far, all buttons together
    run,           \* per button: consecutive samples equal to the last one
    presslen,      \* per button: asserted samples in the current press cycle
    clicks,        \* per button: Click events of the current press cycle
    longs,         \* per button: LongPress events of the current press cycle
    downs,         \* per button: PressDown events so far
    ups,           \* per button: PressUp events so far
    pairOk,        \* per button: PressDown and PressUp have fired in pair order so far
    calls,         \* the calls made on the Application, in order
    lastNote,      \* the text of the last ShowNotification request
    lastRun,       \* the last completed volume handler run
    ledRets,       \* the instances GetLed() has returned
    codecRets,     \* the instances GetAudioCodec() has returned
    dispRets,      \* the instances GetDisplay() has returned
    runs,          \* events delivered straight to the volume handlers
    startVolume,   \* the output volume the board was constructed with
    invoked,       \* per volume handler: the calls of it so far
    \* the accessors' callers, one step at a time
    guard,         \* per accessor: its static is "uninit", "busy" (under construction) or "done"
    apc            \* per caller: the accessor it is in and where: "idle", "ctor" or "wait"

progVars == <<pc, display_, panel_on, handlers, things, level, cnt, bstate, held,
              hpc, hloc, output_volume, led_objs, codec_objs, shown, fault>>

histVars == <<stepLog, regLog, edges, run, presslen, clicks, longs, downs, ups,
              pairOk, calls, lastNote, lastRun, ledRets, codecRets, dispRets, runs,
              startVolume, invoked>>

accessVars == <<guard, apc>>

vars == <<progVars, histVars, accessVars>>

buttonVars == <<level, cnt, bstate, held, edges, run, presslen, clicks, longs,
                downs, ups, pairOk>>

handlerVars == <<hpc, hloc, output_volume, codec_objs, shown, fault, calls,
                 lastNote, lastRun, codecRets, dispRets, invoked>>

bringupVars == <<pc, display_, panel_on, handlers, things, stepLog, regLog>>

ledVars == <<led_objs, ledRets, runs, startVolume, accessVars>>

(* ------------------------------------------------------------------ *)
(* Helpers                                                             *)
(* ------------------------------------------------------------------ *)

Min(a, b) == IF a < b THEN a ELSE b

Max(a, b) == IF a > b THEN a ELSE b

\* no callback registered: the table holds the registered <<button, event>> only
NoHandlers == [k \in {} |-> "none"]

NoLocals == [read |-> 0, volume |-> 0]

NoRun == [lambda |-> "none", read |-> 0, wrote |-> 0, text |-> <<>>]

\* the lambdas that write the output volume
VolumeLambdas ==
    {"VolumeUpClick", "VolumeUpLongPress", "VolumeDownClick", "VolumeDownLongPress"}

NoneInvoked == [l \in VolumeLambdas |-> 0]

DigitChars == <<"0", "1", "2", "3", "4", "5", "6", "7", "8", "9">>

\* the decimal digits of a non-negative int, most significant first
RECURSIVE Digits(_)
Digits(n) ==
    IF n < 10 THEN <<DigitChars[n + 1]>>
    ELSE Digits(n \div 10) \o <<DigitChars[(n % 10) + 1]>>

\* std::to_string(int)
to_string(n) == IF n < 0 THEN <<"-">> \o Digits(-n) ELSE Digits(n)

\* Lang::Strings::VOLUME + std::to_string(volume)
VolumeText(volume) == <<"VOLUME">> \o to_string(volume)

(* ------------------------------------------------------------------ *)
(* Accessors                                                           *)
(* ------------------------------------------------------------------ *)

\* the accessors that hold a function-local static
Accessors == {"GetLed", "GetAudioCodec"}

\* the tasks that call them: the application and the volume buttons' activities
Callers == {"application", "volume_up", "volume_down"}

\* a caller that is in no accessor
Idle == [in |-> "none", at |-> "idle"]

\* GetLed(): a function-local static, constructed by the first call. n: the
\* objects constructed before the call; ret: the instance returned.
GetLedHeap(n) == [objs |-> n + 1, ret |-> n + 1]

GetLed(n) == [objs |-> IF n = 0 THEN 1 ELSE n, ret |-> 1]

\* GetAudioCodec(): a function-local static of the one topology the build selects
GetAudioCodecHeap(n) == [objs |-> n + 1, ret |-> n + 1]

GetAudioCodec(n) == [objs |-> IF n = 0 THEN 1 ELSE n, ret |-> 1]

\* GetDisplay(): the member display_
GetDisplay(d) == d

(* ------------------------------------------------------------------ *)
(* The handlers wired by InitializeButtons. A handler maps the state it *)
(* may touch, a record E, to that state after it has run.               *)
(* ------------------------------------------------------------------ *)

\* Display::ShowNotification on the facade GetDisplay() returned: NoDisplay ignores
\* the text, OledDisplay shows it, a null pointer is an error at the caller
ShowNotification(E, text) ==
    LET d  == GetDisplay(E.display_)
        E1 == [E EXCEPT !.dispRets = @ \cup {d}, !.lastNote = text]
    IN  CASE d = "null" -> [E1 EXCEPT !.fault = TRUE]
          [] d = "NoDisplay" -> E1
          [] d = "OledDisplay" -> [E1 EXCEPT !.shown = text]

\* the codec the handler works on
UseCodec(E) ==
    LET g == GetAudioCodec(E.codec_objs)
    IN  [E EXCEPT !.codec_objs = g.objs, !.codecRets = @ \cup {g.ret}]

\* AudioCodec::SetOutputVolume
SetOutputVolume(E, volume) == [E EXCEPT !.output_volume = volume]

\* boot_button_.OnClick
BootClick(E) == [E EXCEPT !.calls = Append(@, "ToggleChatState")]

\* touch_button_.OnPressDown
TouchPressDown(E) == [E EXCEPT !.calls = Append(@, "StartListening")]

\* touch_button_.OnPressUp
TouchPressUp(E) == [E EXCEPT !.calls = Append(@, "StopListening")]

\* volume_up_button_.OnClick, the clamp of the local volume
VolumeUpNoClamp(volume) == volume

VolumeUpClamp(volume) == IF volume > MaxVolume THEN MaxVolume ELSE volume

\* volume_down_button_.OnClick, the clamp of the local volume
VolumeDownNoClamp(volume) == volume

VolumeDownClamp(volume) == IF volume < MinVolume THEN MinVolume ELSE volume

\* volume_up_button_.OnClick up to the clamp: the codec is fetched, its volume
\* read and the new volume computed into the local
VolumeUpClickRead(E) ==
    LET E1 == UseCodec(E)
    IN  [E1 EXCEPT !.hpc = "write",
                   !.hloc = [read |-> E1.output_volume,
                             volume |-> VolumeUpClamp(E1.output_volume + VolumeStep)]]

\* volume_down_button_.OnClick up to the clamp
VolumeDownClickRead(E) ==
    LET E1 == UseCodec(E)
    IN  [E1 EXCEPT !.hpc = "write",
                   !.hloc = [read |-> E1.output_volume,
                             volume |-> VolumeDownClamp(E1.output_volume - VolumeStep)]]

\* the text a volume click handler passes to ShowNotification
VolumeClickTextUnclamped(lambda, loc) ==
    VolumeText(IF lambda = "VolumeUpClick" THEN loc.read + VolumeStep
               ELSE loc.read - VolumeStep)

VolumeClickText(lambda, loc) == VolumeText(loc.volume)

\* a volume click handler that gives up when there is no panel to show the volume on
VolumeClickWriteOnPanelOnly(lambda, E) ==
    IF E.display_ = "NoDisplay"
    THEN [E EXCEPT !.hpc = "sample", !.hloc = NoLocals]
    ELSE LET text == VolumeClickText(lambda, E.hloc)
             E1   == ShowNotification(SetOutputVolume(E, E.hloc.volume), text)
         IN  [E1 EXCEPT !.hpc = "sample", !.hloc = NoLocals,
                        !.lastRun = [lambda |-> lambda, read |-> E.hloc.read,
                                     wrote |-> E.hloc.volume, text |-> text]]

\* the rest of a volume click handler: SetOutputVolume(volume), then the notification
VolumeClickWrite(lambda, E) ==
    LET text == VolumeClickText(lambda, E.hloc)
        E1   == ShowNotification(SetOutputVolume(E, E.hloc.volume), text)
    IN  [E1 EXCEPT !.hpc = "sample", !.hloc = NoLocals,
                   !.lastRun = [lambda |-> lambda, read |-> E.hloc.read,
                                wrote |-> E.hloc.volume, text |-> text]]

\* a long-press handler that steps like a click (a wrong wiring of the lambda)
VolumeUpLongPressStep(E) ==
    LET v  == VolumeUpClamp(E.output_volume + VolumeStep)
        E1 == ShowNotification(SetOutputVolume(UseCodec(E), v), <<"MAX_VOLUME">>)
    IN  [E1 EXCEPT !.lastRun = [lambda |-> "VolumeUpLongPress", read |-> E.output_volume,
                                wrote |-> v, text |-> <<"MAX_VOLUME">>]]

\* volume_up_button_.OnLongPress
VolumeUpLongPress(E) ==
    LET E1 == ShowNotification(SetOutputVolume(UseCodec(E), MaxVolume), <<"MAX_VOLUME">>)
    IN  [E1 EXCEPT !.lastRun = [lambda |-> "VolumeUpLongPress", read |-> E.output_volume,
                                wrote |-> MaxVolume, text |-> <<"MAX_VOLUME">>]]

\* volume_down_button_.OnLongPress
VolumeDownLongPress(E) ==
    LET E1 == ShowNotification(SetOutputVolume(UseCodec(E), MinVolume), <<"MUTED">>)
    IN  [E1 EXCEPT !.lastRun = [lambda |-> "VolumeDownLongPress", read |-> E.output_volume,
                                wrote |-> MinVolume, text |-> <<"MUTED">>]]

\* history: one more call of a volume handler
Invoked(lambda, E) == [E EXCEPT !.invoked[lambda] = @ + 1]

\* the call of a registered callback
RunLambda(lambda, E) ==
    CASE lambda = "none" -> E
      [] lambda = "BootClick" -> BootClick(E)
      [] lambda = "TouchPressDown" -> TouchPressDown(E)
      [] lambda = "TouchPressUp" -> TouchPressUp(E)
      [] lambda = "VolumeUpClick" -> VolumeUpClickRead(Invoked(lambda, E))
      [] lambda = "VolumeUpLongPress" -> VolumeUpLongPress(Invoked(lambda, E))
      [] lambda = "VolumeDownClick" -> VolumeDownClickRead(Invoked(lambda, E))
      [] lambda = "VolumeDownLongPress" -> VolumeDownLongPress(Invoked(lambda, E))

\* the callback registered for event e of button b
Callback(b, e) == IF <<b, e>> \in DOMAIN handlers THEN handlers[<<b, e>>] ELSE "none"

\* the events of one sample go, in order, to the callbacks registered for them
RECURSIVE Dispatch(_, _, _)
Dispatch(b, evs, E) ==
    IF evs = <<>> THEN E
    ELSE Dispatch(b, Tail(evs), RunLambda(Callback(b, Head(evs)), E))

\* the state a handler of button b may touch
Env(b) ==
    [hpc |-> hpc[b], hloc |-> hloc[b], output_volume |-> output_volume,
     codec_objs |-> codec_objs, shown |-> shown, fault |-> fault, calls |-> calls,
     lastNote |-> lastNote, lastRun |-> lastRun, codecRets |-> codecRets,
     dispRets |-> dispRets, invoked |-> invoked, display_ |-> display_]

\* the handlers of button b have left E
Commit(b, E) ==
    /\ hpc' = [hpc EXCEPT ![b] = E.hpc]
    /\ hloc' = [hloc EXCEPT ![b] = E.hloc]
    /\ output_volume' = E.output_volume
    /\ codec_objs' = E.codec_objs
    /\ shown' = E.shown
    /\ fault' = E.fault
    /\ calls' = E.calls
    /\ lastNote' = E.lastNote
    /\ lastRun' = E.lastRun
    /\ codecRets' = E.codecRets
    /\ dispRets' = E.dispRets
    /\ invoked' = E.invoked

(* ------------------------------------------------------------------ *)
(* The Button state machine (button.h is outside this file: the machine *)
(* is the one section 4.3 of the specification describes)               *)
(* ------------------------------------------------------------------ *)

\* a level that differs from the debounced one is accepted at once
DebounceAcceptAtOnce(c) == TRUE

\* the level has differed from the debounced one for the whole window
DebounceAccept(c) == c + 1 >= DebounceTicks

\* a release fires Click whatever the state
ReleaseEventsAlwaysClick(st) == <<"PressUp", "Click">>

\* the events of a debounced release
ReleaseEvents(st) ==
    IF st = "Pressed" THEN <<"PressUp", "Click">> ELSE <<"PressUp">>

\* one sample lv of the line, from state st with counters c (debounce) and h (hold)
ButtonSample(st, c, h, lv) ==
    LET asserted == st \in {"Pressed", "LongPressFired"}
    IN  IF lv # asserted
        THEN IF DebounceAccept(c)
             THEN IF st = "Idle"
                  THEN [state |-> "Pressed", cnt |-> 0, held |-> 0,
                        events |-> <<"PressDown">>]
                  ELSE [state |-> "Idle", cnt |-> 0, held |-> 0,
                        events |-> ReleaseEvents(st)]
             ELSE [state |-> st, cnt |-> c + 1, held |-> h, events |-> <<>>]
        ELSE IF st = "Pressed"
             THEN IF h + 1 >= LongPressTicks
                  THEN [state |-> "LongPressFired", cnt |-> 0, held |-> 0,
                        events |-> <<"LongPress">>]
                  ELSE [state |-> "Pressed", cnt |-> 0, held |-> h + 1,
                        events |-> <<>>]
             ELSE [state |-> st, cnt |-> 0, held |-> h, events |-> <<>>]

Fired(evs, e) == \E i \in 1..Len(evs) : evs[i] = e

(* ------------------------------------------------------------------ *)
(* Actions                                                             *)
(* ------------------------------------------------------------------ *)

\* the process runs: it has neither aborted nor crashed
Alive == pc # "aborted" /\ ~fault

\* ESP_ERROR_CHECK(x): abort() unless x is ESP_OK
EspErrorCheck(ok, next) == IF ok THEN next ELSE "aborted"

BringUpStep(name, ok, next) ==
    /\ pc' = next
    /\ stepLog' = Append(stepLog, <<name, ok>>)

\* a constructor body that registers the handlers before it sets up the display
ConstructMembersButtonsFirst ==
    /\ pc = "ctor"
    /\ BringUpStep("members", TRUE, "buttons")
    /\ UNCHANGED <<display_, panel_on, handlers, things, regLog>>
    /\ UNCHANGED <<buttonVars, handlerVars, ledVars>>

\* the member initialisers: the base board and the four buttons, which
\* sample their lines from here on
ConstructMembers ==
    /\ pc = "ctor"
    /\ BringUpStep("members", TRUE, "bus")
    /\ UNCHANGED <<display_, panel_on, handlers, things, regLog>>
    /\ UNCHANGED <<buttonVars, handlerVars, ledVars>>

\* the bus is used whether or not its creation succeeded
InitializeDisplayI2cUnchecked ==
    /\ pc = "bus"
    /\ \E ok \in BOOLEAN : BringUpStep("bus", ok, "io")
    /\ UNCHANGED <<display_, panel_on, handlers, things, regLog>>
    /\ UNCHANGED <<buttonVars, handlerVars, ledVars>>

InitializeDisplayI2c ==
    /\ pc = "bus"
    /\ \E ok \in BOOLEAN : BringUpStep("bus", ok, EspErrorCheck(ok, "io"))
    /\ UNCHANGED <<display_, panel_on, handlers, things, regLog>>
    /\ UNCHANGED <<buttonVars, handlerVars, ledVars>>

\* esp_lcd_new_panel_io_i2c_v2
NewPanelIo ==
    /\ pc = "io"
    /\ \E ok \in BOOLEAN : BringUpStep("io", ok, EspErrorCheck(ok, "panel"))
    /\ UNCHANGED <<display_, panel_on, handlers, things, regLog>>
    /\ UNCHANGED <<buttonVars, handlerVars, ledVars>>

\* esp_lcd_new_panel_ssd1306
NewPanelSsd1306 ==
    /\ pc = "panel"
    /\ \E ok \in BOOLEAN : BringUpStep("panel", ok, EspErrorCheck(ok, "reset"))
    /\ UNCHANGED <<display_, panel_on, handlers, things, regLog>>
    /\ UNCHANGED <<buttonVars, handlerVars, ledVars>>

\* a reset followed at once by the power-on, esp_lcd_panel_init left out
PanelResetSkipsInit ==
    /\ pc = "reset"
    /\ \E ok \in BOOLEAN : BringUpStep("reset", ok, EspErrorCheck(ok, "disp_on"))
    /\ UNCHANGED <<display_, panel_on, handlers, things, regLog>>
    /\ UNCHANGED <<buttonVars, handlerVars, ledVars>>

\* esp_lcd_panel_reset
PanelReset ==
    /\ pc = "reset"
    /\ \E ok \in BOOLEAN : BringUpStep("reset", ok, EspErrorCheck(ok, "init"))
    /\ UNCHANGED <<display_, panel_on, handlers, things, regLog>>
    /\ UNCHANGED <<buttonVars, handlerVars, ledVars>>

\* a failed esp_lcd_panel_init treated like the steps before it
PanelInitFailedAborts ==
    /\ BringUpStep("init", FALSE, "aborted")
    /\ UNCHANGED display_

\* a failed esp_lcd_panel_init that returns without a display
PanelInitFailedNoFallback ==
    /\ BringUpStep("init", FALSE, "buttons")
    /\ UNCHANGED display_

\* a failed esp_lcd_panel_init whose branch does not return: on to the power-on
PanelInitFailedFallsThrough ==
    /\ BringUpStep("init", FALSE, "disp_on")
    /\ display_' = "NoDisplay"

\* esp_lcd_panel_init failed: log, display_ = new NoDisplay(), return
PanelInitFailed ==
    /\ BringUpStep("init", FALSE, "buttons")
    /\ display_' = "NoDisplay"

\* esp_lcd_panel_init
PanelInit ==
    /\ pc = "init"
    /\ \/ BringUpStep("init", TRUE, "disp_on") /\ UNCHANGED display_
       \/ PanelInitFailed
    /\ UNCHANGED <<panel_on, handlers, things, regLog>>
    /\ UNCHANGED <<buttonVars, handlerVars, ledVars>>

\* the power-on's result not checked: on to the OledDisplay either way
PanelDispOnUnchecked ==
    /\ pc = "disp_on"
    /\ \E ok \in BOOLEAN :
          /\ BringUpStep("disp_on", ok, "new_oled")
          /\ panel_on' = ok
    /\ UNCHANGED <<display_, handlers, things, regLog>>
    /\ UNCHANGED <<buttonVars, handlerVars, ledVars>>

\* esp_lcd_panel_disp_on_off(panel_, true)
PanelDispOn ==
    /\ pc = "disp_on"
    /\ \E ok \in BOOLEAN :
          /\ BringUpStep("disp_on", ok, EspErrorCheck(ok, "new_oled"))
          /\ panel_on' = ok
    /\ UNCHANGED <<display_, handlers, things, regLog>>
    /\ UNCHANGED <<buttonVars, handlerVars, ledVars>>

\* the success path installing the fallback display
NewOledDisplayWrongVariant ==
    /\ pc = "new_oled"
    /\ BringUpStep("new_oled", TRUE, "buttons")
    /\ display_' = "NoDisplay"
    /\ UNCHANGED <<panel_on, handlers, things, regLog>>
    /\ UNCHANGED <<buttonVars, handlerVars, ledVars>>

\* display_ = new OledDisplay(...)
NewOledDisplay ==
    /\ pc = "new_oled"
    /\ BringUpStep("new_oled", TRUE, "buttons")
    /\ display_' = "OledDisplay"
    /\ UNCHANGED <<panel_on, handlers, things, regLog>>
    /\ UNCHANGED <<buttonVars, handlerVars, ledVars>>

\* the registrations of InitializeButtons, in order
HandlerWiring ==
    << [button |-> "boot", event |-> "Click", lambda |-> "BootClick"],
       [button |-> "touch", event |-> "PressDown", lambda |-> "TouchPressDown"],
       [button |-> "touch", event |-> "PressUp", lambda |-> "TouchPressUp"],
       [button |-> "volume_up", event |-> "Click", lambda |-> "VolumeUpClick"],
       [button |-> "volume_up", event |-> "LongPress", lambda |-> "VolumeUpLongPress"],
       [button |-> "volume_down", event |-> "Click", lambda |-> "VolumeDownClick"],
       [button |-> "volume_down", event |-> "LongPress",
        lambda |-> "VolumeDownLongPress"] >>

\* InitializeButtons: the next registration; after the last one, on to InitializeIot
InitializeButtons ==
    /\ pc = "buttons"
    /\ LET k == Len(regLog) + 1
           w == HandlerWiring[k]
       IN  /\ handlers' = [x \in DOMAIN handlers \cup {<<w.button, w.event>>} |->
                              IF x = <<w.button, w.event>> THEN w.lambda
                              ELSE handlers[x]]
           /\ regLog' = Append(regLog, <<w.button, w.event>>)
           /\ pc' = IF k = Len(HandlerWiring) THEN "iot" ELSE "buttons"
    /\ UNCHANGED <<display_, panel_on, things, stepLog>>
    /\ UNCHANGED <<buttonVars, handlerVars, ledVars>>

\* an InitializeIot that registers the speaker only
InitializeIotSpeakerOnly ==
    /\ pc = "iot"
    /\ things' = things \o <<"Speaker">>
    /\ BringUpStep("iot", TRUE, "ready")
    /\ UNCHANGED <<display_, panel_on, handlers, regLog>>
    /\ UNCHANGED <<buttonVars, handlerVars, ledVars>>

\* InitializeIot: AddThing("Speaker"), AddThing("Lamp"); the constructor returns
InitializeIot ==
    /\ pc = "iot"
    /\ things' = things \o <<"Speaker", "Lamp">>
    /\ BringUpStep("iot", TRUE, "ready")
    /\ UNCHANGED <<display_, panel_on, handlers, regLog>>
    /\ UNCHANGED <<buttonVars, handlerVars, ledVars>>

\* the constructor's next step
BringUp ==
    /\ Alive
    /\ \/ ConstructMembers
       \/ InitializeDisplayI2c
       \/ NewPanelIo
       \/ NewPanelSsd1306
       \/ PanelReset
       \/ PanelInit
       \/ PanelDispOn
       \/ NewOledDisplay
       \/ InitializeButtons
       \/ InitializeIot

\* the sampling activity of button b takes one sample and fires its events
Tick(b) ==
    /\ Alive
    /\ pc # "ctor"
    /\ hpc[b] = "sample"
    /\ \E lv \in BOOLEAN :
          /\ lv # level[b] => edges < MaxEdges
          /\ LET r == ButtonSample(bstate[b], cnt[b], held[b], lv)
                 down == Fired(r.events, "PressDown")
                 up == Fired(r.events, "PressUp")
             IN  /\ level' = [level EXCEPT ![b] = lv]
                 /\ cnt' = [cnt EXCEPT ![b] = r.cnt]
                 /\ bstate' = [bstate EXCEPT ![b] = r.state]
                 /\ held' = [held EXCEPT ![b] = r.held]
                 /\ edges' = IF lv # level[b] THEN edges + 1 ELSE edges
                 /\ run' = [run EXCEPT ![b] =
                              IF lv = level[b] THEN Min(@ + 1, DebounceTicks) ELSE 1]
                 /\ presslen' = [presslen EXCEPT ![b] =
                              IF down THEN 0
                              ELSE IF bstate[b] # "Idle" /\ lv /\ ~up
                                   THEN Min(@ + 1, LongPressTicks) ELSE @]
                 /\ clicks' = [clicks EXCEPT ![b] =
                              IF down THEN 0
                              ELSE IF Fired(r.events, "Click") THEN Min(@ + 1, 2) ELSE @]
                 /\ longs' = [longs EXCEPT ![b] =
                              IF down THEN 0
                              ELSE IF Fired(r.events, "LongPress") THEN Min(@ + 1, 2)
                                   ELSE @]
                 /\ downs' = [downs EXCEPT ![b] = IF down THEN @ + 1 ELSE @]
                 /\ ups' = [ups EXCEPT ![b] = IF up THEN @ + 1 ELSE @]
                 /\ pairOk' = [pairOk EXCEPT ![b] =
                              /\ @
                              /\ down => downs[b] = ups[b]
                              /\ up => downs[b] = ups[b] + 1]
                 /\ Commit(b, Dispatch(b, r.events, Env(b)))
    /\ UNCHANGED <<bringupVars, ledVars>>

\* the volume click handler running on button b's activity finishes
ClickFinish(b) ==
    /\ Alive
    /\ hpc[b] = "write"
    /\ Commit(b, VolumeClickWrite(Callback(b, "Click"), Env(b)))
    /\ UNCHANGED <<bringupVars, buttonVars, ledVars>>

\* the application calls GetLed()
AppGetLed ==
    /\ Alive
    /\ pc = "ready"
    /\ LET g == GetLed(led_objs)
       IN  /\ led_objs' = g.objs
           /\ ledRets' = ledRets \cup {g.ret}
    /\ UNCHANGED <<bringupVars, buttonVars, handlerVars, runs, startVolume, accessVars>>

\* the application calls GetAudioCodec()
AppGetAudioCodec ==
    /\ Alive
    /\ pc = "ready"
    /\ LET g == GetAudioCodec(codec_objs)
       IN  /\ codec_objs' = g.objs
           /\ codecRets' = codecRets \cup {g.ret}
    /\ UNCHANGED <<bringupVars, buttonVars, ledVars>>
    /\ UNCHANGED <<hpc, hloc, output_volume, shown, fault, calls, lastNote, lastRun,
                   dispRets, invoked>>

\* the application calls GetDisplay()->ShowNotification(text)
AppShowNotification ==
    /\ Alive
    /\ pc = "ready"
    /\ LET E == ShowNotification(Env("boot"), <<"APP">>)
       IN  /\ shown' = E.shown
           /\ fault' = E.fault
           /\ lastNote' = E.lastNote
           /\ dispRets' = E.dispRets
    /\ UNCHANGED <<bringupVars, buttonVars, ledVars>>
    /\ UNCHANGED <<hpc, hloc, output_volume, codec_objs, calls, lastRun, codecRets,
                   invoked>>

Init ==
    /\ pc = "ctor"
    /\ display_ = "null"
    /\ panel_on = FALSE
    /\ handlers = NoHandlers
    /\ things = <<>>
    /\ level = [b \in Buttons |-> FALSE]
    /\ cnt = [b \in Buttons |-> 0]
    /\ bstate = [b \in Buttons |-> "Idle"]
    /\ held = [b \in Buttons |-> 0]
    /\ hpc = [b \in Buttons |-> "sample"]
    /\ hloc = [b \in Buttons |-> NoLocals]
    /\ output_volume \in InitVolumes
    /\ led_objs = 0
    /\ codec_objs = 0
    /\ shown = <<>>
    /\ fault = FALSE
    /\ stepLog = <<>>
    /\ regLog = <<>>
    /\ edges = 0
    /\ run = [b \in Buttons |-> DebounceTicks]
    /\ presslen = [b \in Buttons |-> 0]
    /\ clicks = [b \in Buttons |-> 0]
    /\ longs = [b \in Buttons |-> 0]
    /\ downs = [b \in Buttons |-> 0]
    /\ ups = [b \in Buttons |-> 0]
    /\ pairOk = [b \in Buttons |-> TRUE]
    /\ calls = <<>>
    /\ lastNote = <<>>
    /\ lastRun = NoRun
    /\ ledRets = {}
    /\ codecRets = {}
    /\ dispRets = {}
    /\ runs = 0
    /\ startVolume = output_volume
    /\ invoked = NoneInvoked
    /\ guard = [f \in Accessors |-> "uninit"]
    /\ apc = [c \in Callers |-> Idle]

Next ==
    \/ BringUp
    \/ \E b \in Buttons : Tick(b)
    \/ \E b \in Buttons : ClickFinish(b)
    \/ AppGetLed
    \/ AppGetAudioCodec
    \/ AppShowNotification

Spec == Init /\ [][Next]_vars

(* ------------------------------------------------------------------ *)
(* The volume handlers on a ready board, from every output volume       *)
(* ------------------------------------------------------------------ *)

VolumeButtons == {"volume_up", "volume_down"}

\* the handler table after InitializeButtons
WiredHandlers ==
    [k \in {<<HandlerWiring[i].button, HandlerWiring[i].event>> :
                i \in 1..Len(HandlerWiring)} |->
        HandlerWiring[CHOOSE i \in 1..Len(HandlerWiring) :
            <<HandlerWiring[i].button, HandlerWiring[i].event>> = k].lambda]

\* the steps of a bring-up that reaches the end, with display d
ReadyLog(d) ==
    << <<"members", TRUE>>, <<"bus", TRUE>>, <<"io", TRUE>>, <<"panel", TRUE>>,
       <<"reset", TRUE>> >>
    \o (IF d = "OledDisplay"
        THEN << <<"init", TRUE>>, <<"disp_on", TRUE>>, <<"new_oled", TRUE>> >>
        ELSE << <<"init", FALSE>> >>)
    \o << <<"iot", TRUE>> >>

\* a ready board, its buttons idle, its codec at any output volume
InitHandlers ==
    /\ pc = "ready"
    /\ display_ \in {"NoDisplay", "OledDisplay"}
    /\ panel_on = (display_ = "OledDisplay")
    /\ handlers = WiredHandlers
    /\ things = <<"Speaker", "Lamp">>
    /\ level = [b \in Buttons |-> FALSE]
    /\ cnt = [b \in Buttons |-> 0]
    /\ bstate = [b \in Buttons |-> "Idle"]
    /\ held = [b \in Buttons |-> 0]
    /\ hpc = [b \in Buttons |-> "sample"]
    /\ hloc = [b \in Buttons |-> NoLocals]
    /\ output_volume \in MinVolume..MaxVolume
    /\ led_objs = 0
    /\ codec_objs = 0
    /\ shown = <<>>
    /\ fault = FALSE
    /\ stepLog = ReadyLog(display_)
    /\ regLog = [i \in 1..Len(HandlerWiring) |->
                    <<HandlerWiring[i].button, HandlerWiring[i].event>>]
    /\ edges = 0
    /\ run = [b \in Buttons |-> DebounceTicks]
    /\ presslen = [b \in Buttons |-> 0]
    /\ clicks = [b \in Buttons |-> 0]
    /\ longs = [b \in Buttons |-> 0]
    /\ downs = [b \in Buttons |-> 0]
    /\ ups = [b \in Buttons |-> 0]
    /\ pairOk = [b \in Buttons |-> TRUE]
    /\ calls = <<>>
    /\ lastNote = <<>>
    /\ lastRun = NoRun
    /\ ledRets = {}
    /\ codecRets = {}
    /\ dispRets = {}
    /\ runs = 0
    /\ startVolume = output_volume
    /\ invoked = NoneInvoked
    /\ guard = [f \in Accessors |-> "uninit"]
    /\ apc = [c \in Callers |-> Idle]

\* button b's activity delivers event e to the callback registered for it
FireEvent(b, e) ==
    /\ Alive
    /\ hpc[b] = "sample"
    /\ runs < MaxRuns
    /\ runs' = runs + 1
    /\ Commit(b, Dispatch(b, <<e>>, Env(b)))
    /\ UNCHANGED <<bringupVars, buttonVars, led_objs, ledRets, startVolume, accessVars>>

NextHandlers ==
    \/ \E b \in VolumeButtons : \E e \in {"Click", "LongPress"} : FireEvent(b, e)
    \/ \E b \in VolumeButtons : ClickFinish(b)

SpecHandlers == InitHandlers /\ [][NextHandlers]_vars

(* ------------------------------------------------------------------ *)
(* Properties                                                          *)
(* ------------------------------------------------------------------ *)

StepOk(name) == \E i \in 1..Len(stepLog) : stepLog[i] = <<name, TRUE>>

StepFailed(name) == \E i \in 1..Len(stepLog) : stepLog[i] = <<name, FALSE>>

\* the steps guarded by ESP_ERROR_CHECK that the specification calls fatal
FatalSteps == {"bus", "io", "panel", "reset"}

\* C1: when bus, panel I/O, panel driver and reset succeed and panel initialisation
\* fails, bring-up does not abort: display_ is the NoDisplay, the constructor goes
\* on (it always has a next step until it is ready), and once ready every handler
\* and both things are registered.
C1_InitFailureDegrades ==
    ((\A n \in FatalSteps : StepOk(n)) /\ StepFailed("init")) =>
        /\ pc \in {"buttons", "iot", "ready"}
        /\ display_ = "NoDisplay"
        /\ pc # "ready" => ENABLED BringUp
        /\ pc = "ready" =>
              /\ handlers = WiredHandlers
              /\ Len(regLog) = Len(HandlerWiring)
              /\ things = <<"Speaker", "Lamp">>

C1_Witness ==
    /\ StepFailed("init")
    /\ pc = "ready"
    /\ display_ = "NoDisplay"
    /\ handlers = WiredHandlers
    /\ things = <<"Speaker", "Lamp">>

\* C2: when bus creation, panel I/O creation, panel driver creation or panel reset
\* fails, the process is aborted at that step: the failed step is the last step
\* that ran, no handler is registered, no thing is registered and display_ is
\* still null.
C2_FatalAborts ==
    \A n \in FatalSteps :
        StepFailed(n) =>
            /\ pc = "aborted"
            /\ stepLog[Len(stepLog)] = <<n, FALSE>>
            /\ handlers = NoHandlers
            /\ regLog = <<>>
            /\ things = <<>>
            /\ display_ = "null"

C2_Witness ==
    /\ pc = "aborted"
    /\ StepOk("bus") /\ StepOk("io") /\ StepOk("panel")
    /\ StepFailed("reset")
    /\ edges > 0

\* C3: once bring-up has completed, also after a failed panel initialisation,
\* display_ is an installed facade, every GetDisplay() has returned it, no caller
\* of ShowNotification has run into an error, and a NoDisplay has shown nothing.
C3_FacadeNeverFails ==
    pc = "ready" =>
        /\ display_ \in {"NoDisplay", "OledDisplay"}
        /\ dispRets \subseteq {display_}
        /\ ~fault
        /\ display_ = "NoDisplay" => shown = <<>>

C3_Witness ==
    /\ pc = "ready"
    /\ display_ = "NoDisplay"
    /\ StepFailed("init")
    /\ lastRun.lambda \in {"VolumeUpLongPress", "VolumeDownLongPress"}
    /\ lastNote = <<"APP">>
    /\ dispRets = {"NoDisplay"}

\* C4: in every press-release cycle of every button exactly one of Click and
\* LongPress fires: none while the press is still short, one LongPress and no Click
\* once the press has lasted LongPressTicks asserted samples (however long the line
\* stays asserted), and after the release one Click if the press was shorter than
\* that and one LongPress, never followed by a Click, if it was not.
C4_ClickXorLongPress ==
    \A b \in Buttons :
        /\ clicks[b] + longs[b] <= 1
        /\ bstate[b] = "Pressed" => clicks[b] = 0 /\ longs[b] = 0
        /\ bstate[b] = "LongPressFired" => clicks[b] = 0 /\ longs[b] = 1
        /\ (bstate[b] = "Idle" /\ ups[b] > 0) =>
              /\ presslen[b] < LongPressTicks => clicks[b] = 1 /\ longs[b] = 0
              /\ presslen[b] >= LongPressTicks => clicks[b] = 0 /\ longs[b] = 1

C4_Witness ==
    \E b \in Buttons :
        /\ bstate[b] = "Idle"
        /\ ups[b] = 1
        /\ presslen[b] >= LongPressTicks
        /\ longs[b] = 1
        /\ clicks[b] = 0

\* the calls the touch button's handlers have made, in order
TouchCalls == SelectSeq(calls, LAMBDA c : c \in {"StartListening", "StopListening"})

\* C5: PressDown and PressUp of every button alternate, starting with PressDown,
\* their counts equal whenever the button is idle, and so the StartListening and
\* StopListening calls of the touch button alternate, starting with StartListening.
C5_PairsAlternate ==
    /\ \A b \in Buttons :
          /\ pairOk[b]
          /\ downs[b] - ups[b] \in {0, 1}
          /\ (downs[b] + ups[b]) % 2 = 0 => downs[b] = ups[b]
    /\ \A i \in 1..Len(TouchCalls) :
          TouchCalls[i] = IF i % 2 = 1 THEN "StartListening" ELSE "StopListening"

\* C6: a button accepts a level only after DebounceTicks consecutive samples of it:
\* the step that changes the debounced level or fires PressDown, PressUp or Click
\* is a sample that completes such a run of the new level, a sample that differs
\* from the debounced level fires no LongPress, and a sample that does not complete
\* a run leaves the state and every count as they were.
C6_DebounceWindow ==
    [][\A b \in Buttons :
          LET accepted == \/ (bstate[b] = "Idle") # (bstate'[b] = "Idle")
                          \/ downs'[b] # downs[b]
                          \/ ups'[b] # ups[b]
                          \/ clicks'[b] > clicks[b]
          IN  /\ accepted =>
                    /\ run'[b] >= DebounceTicks
                    /\ level'[b] = (bstate'[b] # "Idle")
              /\ longs'[b] > longs[b] => level'[b] /\ bstate[b] = "Pressed"
              /\ (level'[b] # (bstate[b] # "Idle") /\ run'[b] < DebounceTicks) =>
                    /\ bstate'[b] = bstate[b]
                    /\ downs'[b] = downs[b] /\ ups'[b] = ups[b]
                    /\ clicks'[b] = clicks[b] /\ longs'[b] = longs[b]
      ]_vars

\* a line was asserted for one sample and released again: nothing has fired
C6_Witness ==
    /\ pc = "ready"
    /\ edges = 2
    /\ \E b \in Buttons : run[b] = 1 /\ ~level[b] /\ bstate[b] = "Idle"
    /\ \A b \in Buttons : downs[b] = 0 /\ ups[b] = 0 /\ clicks[b] = 0 /\ longs[b] = 0
    /\ calls = <<>>
    /\ lastRun = NoRun

\* C7: a volume-up click handler that read output volume v in [0,100] has written
\* min(v+10, 100) to the codec, a volume-down click handler max(v-10, 0); the
\* codec holds what the last completed handler wrote.
C7_ClickStepsAndClamps ==
    /\ lastRun.lambda # "none" => output_volume = lastRun.wrote
    /\ lastRun.lambda = "VolumeUpClick" =>
          /\ lastRun.read \in MinVolume..MaxVolume
          /\ lastRun.wrote = Min(lastRun.read + 10, 100)
    /\ lastRun.lambda = "VolumeDownClick" =>
          /\ lastRun.read \in MinVolume..MaxVolume
          /\ lastRun.wrote = Max(lastRun.read - 10, 0)

C7_Witness ==
    /\ lastRun.lambda = "VolumeUpClick"
    /\ lastRun.read = 93
    /\ output_volume = 100
    /\ runs = 1

\* C8: whatever the volume before, a volume-up long press leaves the output volume
\* at 100 and requests the "max volume" notification, a volume-down long press
\* leaves it at 0 and requests the "muted" notification.
C8_LongPressExtremes ==
    /\ lastRun.lambda = "VolumeUpLongPress" =>
          /\ output_volume = 100
          /\ lastRun.wrote = 100
          /\ lastRun.text = <<"MAX_VOLUME">>
          /\ lastNote = <<"MAX_VOLUME">>
    /\ lastRun.lambda = "VolumeDownLongPress" =>
          /\ output_volume = 0
          /\ lastRun.wrote = 0
          /\ lastRun.text = <<"MUTED">>
          /\ lastNote = <<"MUTED">>

C8_Witness ==
    /\ lastRun.lambda = "VolumeUpLongPress"
    /\ lastRun.read = 37
    /\ output_volume = 100
    /\ lastNote = <<"MAX_VOLUME">>
    /\ display_ = "NoDisplay"

IsDigit(c) == \E k \in 1..Len(DigitChars) : DigitChars[k] = c

DigitValue(c) == (CHOOSE k \in 1..Len(DigitChars) : DigitChars[k] = c) - 1

\* the number a sequence of decimal digits stands for
RECURSIVE ParseNat(_)
ParseNat(ds) ==
    IF ds = <<>> THEN 0
    ELSE 10 * ParseNat(SubSeq(ds, 1, Len(ds) - 1)) + DigitValue(ds[Len(ds)])

\* text is the VOLUME string followed by the decimal digits of n
ReadsVolume(text, n) ==
    /\ Len(text) >= 2
    /\ text[1] = "VOLUME"
    /\ \A i \in 2..Len(text) : IsDigit(text[i])
    /\ ParseNat(Tail(text)) = n

\* C9: the notification a volume click handler requests reads the value that handler
\* wrote to the codec, a value in [0,100]: "Volume 100" after a volume-up click from
\* 95, "Volume 0" after a volume-down click from 5.
C9_NotificationCarriesClamped ==
    lastRun.lambda \in {"VolumeUpClick", "VolumeDownClick"} =>
        /\ lastRun.wrote \in 0..100
        /\ ReadsVolume(lastRun.text, lastRun.wrote)
        /\ lastNote = lastRun.text
        /\ (lastRun.lambda = "VolumeUpClick" /\ lastRun.read = 95) =>
              lastRun.text = <<"VOLUME", "1", "0", "0">>
        /\ (lastRun.lambda = "VolumeDownClick" /\ lastRun.read = 5) =>
              lastRun.text = <<"VOLUME", "0">>

C9_Witness ==
    /\ lastRun.lambda = "VolumeUpClick"
    /\ lastRun.read = 95
    /\ lastNote = <<"VOLUME", "1", "0", "0">>
    /\ output_volume = 100

\* C10: every GetLed() has returned one and the same instance, and so have every
\* GetAudioCodec() and every GetDisplay(), by the application and by the handlers.
C10_SameInstances ==
    /\ Cardinality(ledRets) <= 1
    /\ Cardinality(codecRets) <= 1
    /\ Cardinality(dispRets) <= 1
    /\ led_objs <= 1
    /\ codec_objs <= 1

C10_Witness ==
    /\ pc = "ready"
    /\ ledRets = {1}
    /\ codecRets = {1}
    /\ dispRets = {"OledDisplay"}
    /\ lastRun.lambda # "none"
    /\ lastNote = <<"APP">>
    /\ edges = 2

(* ------------------------------------------------------------------ *)
(* The display variant                                                  *)
(* ------------------------------------------------------------------ *)

\* the variant of the installed display follows the outcome of esp_lcd_panel_init
VariantFollowsInit ==
    /\ display_ = "OledDisplay" => StepOk("init")
    /\ display_ = "NoDisplay" => StepFailed("init")
    /\ pc = "ready" =>
          /\ display_ \in {"OledDisplay", "NoDisplay"}
          /\ display_ = "OledDisplay" <=> StepOk("init")

\* display_ is written once, during bring-up, and never after
AssignedOnce ==
    display_' # display_ => display_ = "null" /\ pc \in {"init", "new_oled"}

\* C11: the display variant is assigned exactly once, during bring-up: OledDisplay
\* if and only if esp_lcd_panel_init succeeded, NoDisplay otherwise; once bring-up is
\* complete no button event, handler run or accessor call changes it
C11_VariantFixed == [](VariantFollowsInit) /\ [][AssignedOnce]_vars

\* a ready board with the real display on which a handler has run and the
\* application has used the accessors
C11_Witness ==
    /\ pc = "ready"
    /\ display_ = "OledDisplay"
    /\ StepOk("init")
    /\ lastRun.lambda # "none"
    /\ ledRets # {}
    /\ dispRets = {"OledDisplay"}

(* ------------------------------------------------------------------ *)
(* Handlers and the display pointer                                     *)
(* ------------------------------------------------------------------ *)

\* a handler has run, or is in the middle of its run
HandlerHasRun ==
    \/ calls # <<>>
    \/ lastRun.lambda # "none"
    \/ \E b \in Buttons : hpc[b] = "write"

\* C12: handlers are registered only after display_ has been assigned, so although
\* the buttons sample while the constructor is still running, no handler ever runs
\* with display_ null and no handler ever dereferences a null display
C12_NoHandlerBeforeDisplay ==
    /\ DOMAIN handlers # {} => display_ # "null" /\ pc \in {"buttons", "iot", "ready"}
    /\ HandlerHasRun => display_ # "null"
    /\ "null" \notin dispRets
    /\ ~fault

\* a button was pressed before the display existed (its PressDown met no handler)
\* and its handler ran, on the display, while the constructor was still running
C12_Witness ==
    /\ pc \in {"buttons", "iot"}
    /\ lastRun.lambda = "VolumeUpLongPress"
    /\ dispRets # {}
    /\ display_ # "null"

(* ------------------------------------------------------------------ *)
(* Volume handlers running side by side                                 *)
(* ------------------------------------------------------------------ *)

\* the output volume a volume handler leaves when it runs alone, from volume v
AloneFrom(lambda, v) ==
    LET E  == [Env("volume_up") EXCEPT !.output_volume = v, !.hpc = "sample"]
        E1 == RunLambda(lambda, E)
    IN  IF E1.hpc = "write" THEN VolumeClickWrite(lambda, E1).output_volume
        ELSE E1.output_volume

\* the volumes that running the handlers counted in n one after the other, in
\* any order, leaves from volume v
RECURSIVE SerialResults(_, _)
SerialResults(n, v) ==
    LET left == {l \in VolumeLambdas : n[l] > 0}
    IN  IF left = {} THEN {v}
        ELSE UNION {SerialResults([n EXCEPT ![l] = @ - 1], AloneFrom(l, v)) : l \in left}

\* C13: a volume update is an atomic read-modify-write: when the handlers of the
\* two volume buttons are serviced side by side no update is lost, that is, once
\* they have all returned the output volume is one that running them one after
\* the other, in some order, leaves
C13_NoLostUpdate ==
    (\A b \in Buttons : hpc[b] = "sample")
        => output_volume \in SerialResults(invoked, startVolume)

(* ------------------------------------------------------------------ *)
(* The accessors called from several tasks at once, on a ready board.   *)
(* `static T x(...)` in a function: the first caller to reach the       *)
(* declaration constructs x; a caller that reaches it while x is under  *)
(* construction waits for the construction to complete.                 *)
(* ------------------------------------------------------------------ *)

\* a static whose initialisation is not guarded: whoever finds it not yet
\* constructed constructs it
StaticInitUnguarded(g) == IF g = "done" THEN "return" ELSE "construct"

\* what a caller reaching the declaration of the static does, by the guard g
StaticInit(g) ==
    CASE g = "done" -> "return"
      [] g = "uninit" -> "construct"
      [] g = "busy" -> "wait"

\* `return &led;` / `return &audio_codec;` to the caller
ReturnStatic(f) ==
    IF f = "GetLed"
    THEN ledRets' = ledRets \cup {GetLed(led_objs').ret} /\ UNCHANGED codecRets
    ELSE codecRets' = codecRets \cup {GetAudioCodec(codec_objs').ret} /\ UNCHANGED ledRets

\* what the accessors leave alone
accessorFrame ==
    <<bringupVars, buttonVars, hpc, hloc, output_volume, shown, fault, calls,
      lastNote, lastRun, dispRets, invoked, runs, startVolume>>

\* caller c calls accessor f and reaches the declaration of its static
AccessorEnter(c, f) ==
    /\ Alive
    /\ pc = "ready"
    /\ apc[c] = Idle
    /\ LET a == StaticInit(guard[f])
       IN  \/ /\ a = "return"
              /\ UNCHANGED <<led_objs, codec_objs>>
              /\ ReturnStatic(f)
              /\ UNCHANGED accessVars
           \/ /\ a = "construct"
              /\ guard' = [guard EXCEPT ![f] = "busy"]
              /\ apc' = [apc EXCEPT ![c] = [in |-> f, at |-> "ctor"]]
              /\ UNCHANGED <<led_objs, codec_objs, ledRets, codecRets>>
           \/ /\ a = "wait"
              /\ apc' = [apc EXCEPT ![c] = [in |-> f, at |-> "wait"]]
              /\ UNCHANGED <<guard, led_objs, codec_objs, ledRets, codecRets>>
    /\ UNCHANGED accessorFrame

\* caller c completes the constructor of the static and returns its address
AccessorConstruct(c) ==
    /\ Alive
    /\ apc[c].at = "ctor"
    /\ LET f == apc[c].in
       IN  /\ IF f = "GetLed"
              THEN led_objs' = led_objs + 1 /\ UNCHANGED codec_objs
              ELSE codec_objs' = codec_objs + 1 /\ UNCHANGED led_objs
           /\ guard' = [guard EXCEPT ![f] = "done"]
           /\ ReturnStatic(f)
    /\ apc' = [apc EXCEPT ![c] = Idle]
    /\ UNCHANGED accessorFrame

\* caller c, which waited for the construction, goes on and returns the address
AccessorResume(c) ==
    /\ Alive
    /\ apc[c].at = "wait"
    /\ guard[apc[c].in] = "done"
    /\ UNCHANGED <<led_objs, codec_objs>>
    /\ ReturnStatic(apc[c].in)
    /\ apc' = [apc EXCEPT ![c] = Idle]
    /\ UNCHANGED <<guard, accessorFrame>>

\* a ready board on which no accessor has been called
InitAccessors ==
    /\ InitHandlers
    /\ output_volume \in InitVolumes

NextAccessors ==
    \/ \E c \in Callers : \E f \in Accessors : AccessorEnter(c, f)
    \/ \E c \in Callers : AccessorConstruct(c)
    \/ \E c \in Callers : AccessorResume(c)

SpecAccessors == InitAccessors /\ [][NextAccessors]_vars

\* the callers inside accessor f at position at
Inside(f, at) == {c \in Callers : apc[c] = [in |-> f, at |-> at]}

\* C14: the SingleLed of GetLed() and the codec of GetAudioCodec() are constructed
\* at most once, also when several callers race on the first call, and every
\* caller is returned the one instance, constructed
C14_ConstructedOnce ==
    /\ led_objs <= 1
    /\ codec_objs <= 1
    /\ ledRets \subseteq {GetLed(0).ret}
    /\ codecRets \subseteq {GetAudioCodec(0).ret}
    /\ ledRets # {} => led_objs = 1 /\ guard["GetLed"] = "done"
    /\ codecRets # {} => codec_objs = 1 /\ guard["GetAudioCodec"] = "done"
    /\ \A f \in Accessors : Cardinality(Inside(f, "ctor")) <= 1

\* two callers raced on the first call of each accessor: one constructed, the
\* other, which came while the construction was running, is about to return
C14_Witness ==
    /\ Inside("GetLed", "wait") # {}
    /\ Inside("GetAudioCodec", "wait") # {}
    /\ guard = [f \in Accessors |-> "done"]
    /\ led_objs = 1
    /\ codec_objs = 1
    /\ ledRets # {}
    /\ codecRets # {}

(* ------------------------------------------------------------------ *)
(* The steps that abort                                                 *)
(* ------------------------------------------------------------------ *)

\* bus, panel I/O, panel driver and reset have succeeded
FourOk == \A n \in FatalSteps : StepOk(n)

\* C15 as stated: once bus creation, panel I/O creation, panel driver creation and
\* panel reset have succeeded bring-up never aborts, whatever a later step returns
C15_OnlyFourAbort == FourOk => pc # "aborted"

\* the steps under ESP_ERROR_CHECK
AbortSteps == FatalSteps \cup {"disp_on"}

\* C15, amended: the faults that abort are exactly those of bus creation, panel I/O
\* creation, panel driver creation, panel reset and display power-on; a failed
\* panel initialisation does not abort; whenever those five steps do not fail
\* bring-up never aborts, always has a next step and completes with the
\* OledDisplay or the NoDisplay
C15_FiveAbort ==
    /\ pc = "aborted" <=> \E n \in AbortSteps : StepFailed(n)
    /\ StepFailed("init") => pc # "aborted"
    /\ (FourOk /\ ~StepFailed("disp_on")) =>
          /\ pc # "aborted"
          /\ pc # "ready" => ENABLED BringUp
          /\ pc = "ready" => display_ \in {"OledDisplay", "NoDisplay"}

\* the four steps and the panel initialisation succeeded, the power-on failed:
\* aborted, with no display
C15_Witness ==
    /\ FourOk
    /\ StepOk("init")
    /\ StepFailed("disp_on")
    /\ pc = "aborted"
    /\ display_ = "null"

(* ------------------------------------------------------------------ *)
(* The order of bring-up                                                *)
(* ------------------------------------------------------------------ *)

\* the Button members have been constructed
ButtonsConstructed == StepOk("members")

\* a button has sampled its line: a level change or an event has come of it
ButtonSampled ==
    \/ edges > 0
    \/ \E b \in Buttons : level[b] \/ downs[b] > 0

StepNames == [i \in 1..Len(stepLog) |-> stepLog[i][1]]

IsPrefix(s, t) == Len(s) <= Len(t) /\ \A i \in 1..Len(s) : s[i] = t[i]

\* the constructor's steps in the order of the code, by display
StepOrder(d) == [i \in 1..Len(ReadyLog(d)) |-> ReadyLog(d)[i][1]]

RanBefore(a, b) ==
    \E i, j \in 1..Len(stepLog) : i < j /\ stepLog[i][1] = a /\ stepLog[j][1] = b

\* step name has run, whatever it returned
Ran(name) == StepOk(name) \/ StepFailed(name)

\* C17: the panel is powered on and the OledDisplay constructed only after
\* esp_lcd_panel_init has succeeded, the power-on before the construction; when the
\* initialisation fails the panel is never powered on, no OledDisplay is
\* constructed and the panel is not used again
C17_PowerOnAfterInit ==
    /\ panel_on => StepOk("disp_on")
    /\ Ran("disp_on") => StepOk("init") /\ RanBefore("init", "disp_on")
    /\ Ran("new_oled") => StepOk("disp_on") /\ panel_on /\ RanBefore("disp_on", "new_oled")
    /\ display_ = "OledDisplay" <=> Ran("new_oled")
    /\ StepFailed("init") =>
          /\ ~panel_on
          /\ display_ = "NoDisplay"
          /\ ~Ran("disp_on")
          /\ ~Ran("new_oled")
          /\ shown = <<>>

\* the initialisation failed, bring-up is complete, a volume handler has asked
\* for a notification: the panel is off and shows nothing
C17_Witness ==
    /\ StepFailed("init")
    /\ pc = "ready"
    /\ ~panel_on
    /\ lastRun.lambda # "none"
    /\ lastNote # <<>>
    /\ shown = <<>>

(* ------------------------------------------------------------------ *)
(* The two display variants side by side                                *)
(* ------------------------------------------------------------------ *)

Displays == {"NoDisplay", "OledDisplay"}

\* the state button b's handlers see, were the installed display d
OnDisplay(b, d) == [Env(b) EXCEPT !.display_ = d]

\* what a handler leaves, but for the panel: the volume, the calls on the
\* application, the codec, the handler's position and locals, the notification asked for
NonVisual(E) ==
    [hpc |-> E.hpc, hloc |-> E.hloc, output_volume |-> E.output_volume,
     codec_objs |-> E.codec_objs, codecRets |-> E.codecRets, fault |-> E.fault,
     calls |-> E.calls, invoked |-> E.invoked, lastRun |-> E.lastRun,
     lastNote |-> E.lastNote]

\* the events one sample of a button may deliver, in order, and the single
\* events delivered straight to a handler
EventBatches ==
    {ButtonSample(st, c, h, lv).events :
        st \in {"Idle", "Pressed", "LongPressFired"}, c \in 0..DebounceTicks,
        h \in 0..LongPressTicks, lv \in BOOLEAN}
    \cup {<<e>> : e \in Events}

\* C18: a board with the NoDisplay and a board with the OledDisplay, given the same
\* button events, go through the same output volumes and make the same calls
\* (ToggleChatState, StartListening, StopListening) in the same order. Checked
\* step by step: the two bring-ups wire the same handlers, and from every reachable
\* state every delivery of events to a button, and every completion of a
\* volume click handler, leaves the same state but for the panel whichever of
\* the two displays is installed
C18_DisplayBlind ==
    /\ pc = "ready" => handlers = WiredHandlers /\ things = <<"Speaker", "Lamp">>
    /\ \A b \in Buttons :
          /\ \A evs \in EventBatches :
                NonVisual(Dispatch(b, evs, OnDisplay(b, "NoDisplay")))
                    = NonVisual(Dispatch(b, evs, OnDisplay(b, "OledDisplay")))
          /\ hpc[b] = "write" =>
                NonVisual(VolumeClickWrite(Callback(b, "Click"), OnDisplay(b, "NoDisplay")))
                    = NonVisual(VolumeClickWrite(Callback(b, "Click"), OnDisplay(b, "OledDisplay")))

\* a board with the NoDisplay on which the touch handler has called the
\* application and a volume handler has set the volume, nothing being shown
C18_Witness ==
    /\ display_ = "NoDisplay"
    /\ calls = <<"StartListening">>
    /\ lastRun.lambda = "VolumeUpLongPress"
    /\ output_volume = MaxVolume
    /\ shown = <<>>

(* ------------------------------------------------------------------ *)
(* The range of the output volume                                       *)
(* ------------------------------------------------------------------ *)

VolumeRange == MinVolume..MaxVolume

\* C19: from an output volume within 0..100, after any sequence and interleaving of
\* runs of the volume click and long-press handlers the output volume is
\* within 0..100, and no handler writes, or is about to write, a value outside it
C19_VolumeInRange ==
    startVolume \in VolumeRange =>
        /\ output_volume \in VolumeRange
        /\ \A b \in Buttons : hpc[b] = "write" => hloc[b].volume \in VolumeRange
        /\ lastRun.lambda # "none" => lastRun.wrote \in VolumeRange

\* from volume 5 the two click handlers ran interleaved: both read 5, volume up
\* wrote 15, then volume down wrote its clamped 0
C19_Witness ==
    /\ startVolume = 5
    /\ invoked["VolumeUpClick"] = 1
    /\ invoked["VolumeDownClick"] = 1
    /\ \A b \in Buttons : hpc[b] = "sample"
    /\ lastRun.lambda = "VolumeDownClick"
    /\ lastRun.read = 5
    /\ lastRun.wrote = MinVolume
    /\ output_volume = MinVolume

(* ------------------------------------------------------------------ *)
(* The end of bring-up                                                  *)
(* ------------------------------------------------------------------ *)

\* the constructor has come to its end, one way or the other
Final == pc \in {"aborted", "ready"}

\* the steps and registrations done so far
Progress == Len(stepLog) + Len(regLog)

\* the registrations InitializeButtons makes, in order
AllRegistrations ==
    [i \in 1..Len(HandlerWiring) |-> <<HandlerWiring[i].button, HandlerWiring[i].event>>]

\* where the constructor stands: running with a next step, or at one of its two ends
WiredOrRunning ==
    /\ ~Final => ENABLED BringUp
    /\ Final => ~ENABLED BringUp
    /\ Progress <= Len(StepOrder("OledDisplay")) + Len(HandlerWiring)
    /\ pc = "ready" =>
          /\ display_ \in Displays
          /\ regLog = AllRegistrations
          /\ \A i, j \in 1..Len(regLog) : regLog[i] = regLog[j] => i = j
          /\ handlers = WiredHandlers
          /\ things = <<"Speaker", "Lamp">>
    /\ things # <<>> => regLog = AllRegistrations
    /\ pc = "aborted" => display_ = "null" /\ handlers = NoHandlers /\ things = <<>>

\* every step of the constructor is one more step or registration done
StepAdvances == (pc' # pc \/ regLog' # regLog) => Progress' = Progress + 1

\* C20: bring-up always terminates, in exactly one of two final states, aborted or
\* ready: it has a next step until it is final, and each step advances a bounded
\* count. Ready has the display installed, each of the seven handlers registered
\* exactly once, and Speaker and Lamp registered exactly once, after the
\* handlers; aborted has nothing wired; there is no other final state
C20_TerminatesWired == [](WiredOrRunning) /\ [][StepAdvances]_vars

\* the constructor has returned on a board with the panel: nine steps, seven
\* registrations, two things
C20_Witness ==
    /\ pc = "ready"
    /\ display_ = "OledDisplay"
    /\ Len(stepLog) = Len(StepOrder("OledDisplay"))
    /\ regLog = AllRegistrations
    /\ things = <<"Speaker", "Lamp">>
    /\ ~ENABLED BringUp

====
